---- MODULE Spec2Model ----
(***************************************************************************)
(* A model of metricity's event handlers (src/metricity/bot.py): the      *)
(* channel synchroniser, the two asyncio.Event gates, the member          *)
(* reconciliation handlers and the message recorder.                       *)
(*                                                                         *)
(* Every coroutine is cut at its awaits.  One action is one segment: the  *)
(* effect of the awaited store operation followed by the Python code that *)
(* runs until the handler suspends again.  Store operations touch only    *)
(* the tables and the Python code between them only the gates and the     *)
(* handler's locals, so every real interleaving is one of the model's.    *)
(* An await on a gate suspends only when the gate is cleared, and a       *)
(* waiter woken by set() resumes in a later step whatever the gate has    *)
(* become by then (asyncio.Event.wait).                                    *)
(***************************************************************************)
EXTENDS Naturals, Sequences, FiniteSets, Bags, TLC

\* ------------------------------------------------------------------ bounds
\* Events the platform delivers in one behaviour.
MaxEvents == 3
\* Rows per bulk upsert; 2500 in bot.py line 140, scaled to the rosters below.
ChunkSize == 2

Handlers == 1..MaxEvents

\* ------------------------------------------------------- configuration
None == "None"
guild_id == "g1"
OtherGuild == "g2"
ignore_categories == {"c3"}
staff_categories == {"c2"}
staff_role_id == "staff"

\* -------------------------------------------------------- source topology
Chan(id, kind, category) ==
    [id |-> id, kind |-> kind, name |-> "new", category |-> category]

TopoPlain == << Chan("c1", "category", None), Chan("t1", "text", "c1") >>
TopoStaff == << Chan("t2", "text", "c2"), Chan("c2", "category", None),
                Chan("v1", "voice", "c2") >>
TopoIgnored == << Chan("c3", "category", None), Chan("t3", "text", "c3"),
                  Chan("v1", "voice", None) >>
TopoOrphan == << Chan("t4", "text", None), Chan("c1", "category", None) >>
TopoEmpty == << >>

VARIABLES
    guildChannels,              \* guild.channels, the source topology
    guildMembers,               \* guild.members, the roster
    categories, channels,       \* the four tables, bags of rows
    users, messages,
    sync_process_complete,      \* asyncio.Event: is it set
    channel_sync_in_progress,   \* asyncio.Event: is it set
    ev,                         \* per handler: the event it handles
    pc,                         \* per handler: where it is suspended
    idx,                        \* per handler: loop position
    inFlight,                   \* per handler: the runs in flight when it arrived
    syncLog,                    \* the tables as sync_channels last returned
    listed, size,               \* a call of gen_chunks: its arguments (size 0: no call yet)
    yielded                     \* and the chunks it yields

vars == << guildChannels, guildMembers, categories, channels, users, messages,
           sync_process_complete, channel_sync_in_progress, ev, pc, idx,
           inFlight, syncLog, listed, size, yielded >>

\* ------------------------------------------------------------ the store
Rows(tbl) == BagToSet(tbl)

Has(tbl, id) == \E r \in Rows(tbl) : r.id = id

Row(tbl, id) == CHOOSE r \in Rows(tbl) : r.id = id

RowsWithId(tbl, id) == { r \in Rows(tbl) : r.id = id }

RECURSIVE Copies(_, _)
Copies(tbl, rs) ==
    IF rs = {} THEN 0
    ELSE LET r == CHOOSE x \in rs : TRUE
         IN CopiesIn(r, tbl) + Copies(tbl, rs \ {r})

\* The number of rows of tbl with this primary key.
Count(tbl, id) == Copies(tbl, RowsWithId(tbl, id))

\* INSERT; the store's primary key raises UniqueViolationError instead when
\* Has(tbl, row.id).
Insert(tbl, row) == tbl (+) SetToBag({row})

Merge(row, fields) ==
    [ f \in DOMAIN row |-> IF f \in DOMAIN fields THEN fields[f] ELSE row[f] ]

\* UPDATE ... SET fields WHERE id = id: the other columns keep their values.
Update(tbl, id, fields) ==
    LET hit == RowsWithId(tbl, id)
        rest == Rows(tbl) \ hit
        new == { Merge(r, fields) : r \in hit }
    IN [ r \in rest \cup new |->
           IF r \in new THEN Copies(tbl, { x \in hit : Merge(x, fields) = r })
           ELSE CopiesIn(r, tbl) ]

\* ------------------------------------------------------- sync_channels
CategoryFields(channel) == [id |-> channel.id, name |-> channel.name]

\* Evaluating is_staff for Channel.update and Channel.create reads
\* channel.category.id, which raises AttributeError when channel.category
\* is None.
ChannelRaises(channel) == channel.category = None

\* The keyword arguments of Channel.update (lines 54-63).
ChannelUpdateFields(channel) ==
    [id |-> channel.id,
     name |-> channel.name,
     category_id |-> IF channel.category # None THEN channel.category ELSE None,
     is_staff |-> IF channel.category \in staff_categories THEN TRUE ELSE FALSE]

\* Mutant: the created row is never a staff channel.
ChannelCreateFieldsNoStaff(channel) ==
    [id |-> channel.id,
     name |-> channel.name,
     category_id |-> IF channel.category # None THEN channel.category ELSE None,
     is_staff |-> FALSE]

\* The keyword arguments of Channel.create (lines 65-74).
ChannelCreateFields(channel) ==
    [id |-> channel.id,
     name |-> channel.name,
     category_id |-> IF channel.category # None THEN channel.category ELSE None,
     is_staff |-> IF channel.category \in staff_categories THEN TRUE ELSE FALSE]

Least(S) == CHOOSE j \in S : \A k \in S : j <= k

\* The first loop awaits on the category channels only.
IsCategory(channel) == channel.kind = "category"

\* The second loop skips the channels of ignored categories, then awaits on
\* what is neither a category nor a voice channel.
IsSynced(channel) ==
    /\ ~(channel.category # None /\ channel.category \in ignore_categories)
    /\ channel.kind # "category"
    /\ channel.kind # "voice"

\* Where sync_channels suspends next, having dealt with guild.channels[i] in
\* the first (second) loop: at a get, or not at all ("sync_return").
SecondLoop(i) ==
    LET S == { j \in (i + 1)..Len(guildChannels) : IsSynced(guildChannels[j]) }
    IN IF S = {} THEN [pc |-> "sync_return", idx |-> 0]
       ELSE [pc |-> "Channel_get", idx |-> Least(S)]

\* Mutant: the run starts with the second loop.
FirstLoopSkipped(i) == SecondLoop(0)

FirstLoop(i) ==
    LET S == { j \in (i + 1)..Len(guildChannels) : IsCategory(guildChannels[j]) }
    IN IF S = {} THEN SecondLoop(0)
       ELSE [pc |-> "Category_get", idx |-> Least(S)]

\* ----------------------------------------------------------- gen_chunks
Min(a, b) == IF a <= b THEN a ELSE b

\* range(0, len(chunk_src), chunk_size), from position i on (0-based).
RECURSIVE ChunksFrom(_, _, _)
ChunksFrom(chunk_src, chunk_size, i) ==
    IF i >= Len(chunk_src) THEN << >>
    ELSE << SubSeq(chunk_src, i + 1, Min(i + chunk_size, Len(chunk_src))) >>
         \o ChunksFrom(chunk_src, chunk_size, i + chunk_size)

\* Mutant: the range starts at 1.
gen_chunks_from_one(chunk_src, chunk_size) == ChunksFrom(chunk_src, chunk_size, 1)

gen_chunks(chunk_src, chunk_size) == ChunksFrom(chunk_src, chunk_size, 0)

\* ------------------------------------------------------------- members
Member(id, name, avatar, roles, joined_at, bot) ==
    [id |-> id, name |-> name, avatar |-> avatar, roles |-> roles,
     joined_at |-> joined_at, created_at |-> "t0", bot |-> bot]

NoMember == Member(None, None, None, {}, None, FALSE)

HasStaffRole(member) == staff_role_id \in member.roles

\* The dictionary on_guild_available builds for one member (lines 128-136).
RosterFields(user) ==
    [id |-> user.id, name |-> user.name, avatar_hash |-> user.avatar,
     joined_at |-> user.joined_at, created_at |-> user.created_at,
     is_staff |-> HasStaffRole(user), bot |-> user.bot]

\* Mutant: the write resets opt_out.
MemberFieldsResetOptOut(member) ==
    [id |-> member.id, name |-> member.name, avatar_hash |-> member.avatar,
     joined_at |-> member.joined_at, created_at |-> member.created_at,
     is_staff |-> HasStaffRole(member), opt_out |-> FALSE]

\* The keyword arguments of User.update and User.create in on_member_join
\* and on_member_update: no bot, no opt_out.
MemberFields(member) ==
    [id |-> member.id, name |-> member.name, avatar_hash |-> member.avatar,
     joined_at |-> member.joined_at, created_at |-> member.created_at,
     is_staff |-> HasStaffRole(member)]

\* A row of the users table: the columns bot and opt_out default to FALSE.
UserRow(fields) ==
    Merge([id |-> None, name |-> None, avatar_hash |-> None, joined_at |-> None,
           created_at |-> None, is_staff |-> FALSE, bot |-> FALSE,
           opt_out |-> FALSE], fields)

\* User.bulk_upsert(chunk): insert each row, or on a conflict of id assign
\* the chunk's columns to the stored row.
RECURSIVE bulk_upsert(_, _)
bulk_upsert(tbl, chunk) ==
    IF chunk = << >> THEN tbl
    ELSE LET row == Head(chunk)
             one == IF Has(tbl, row.id) THEN Update(tbl, row.id, row)
                    ELSE Insert(tbl, UserRow(row))
         IN bulk_upsert(one, Tail(chunk))

Users(members) == [ k \in 1..Len(members) |-> RosterFields(members[k]) ]

UserChunks == gen_chunks(Users(guildMembers), ChunkSize)

\* ---------------------------------------------------------- the inputs
Ann == Member("u1", "ann", "a1", {staff_role_id}, "t0", FALSE)
Bob == Member("u2", "bob", "a1", {}, "t0", TRUE)
Cy == Member("u3", "cy", "a1", {"helper"}, "t0", FALSE)

\* What a member event may carry: Ann as the roster has her or with one
\* tracked value changed, or Cy, whom the smaller rosters do not have.
JoinInputs ==
    { << guild_id, Ann >>, << guild_id, Cy >>, << OtherGuild, Ann >> }

UpdateInputs ==
    JoinInputs \cup
    { << guild_id, [Ann EXCEPT !.roles = {}] >>,
      << guild_id, [Ann EXCEPT !.name = "zed"] >>,
      << guild_id, [Ann EXCEPT !.avatar = "a2"] >>,
      << guild_id, [Cy EXCEPT !.joined_at = None, !.name = "zed"] >> }

MessageIds == {"m1"}
UserIds == {"u1", "u2", "u3"}
Authors == UserIds

\* Rows a previous run of the process left in the store.
StoredUser(id, name, is_staff, opt_out) ==
    [id |-> id, name |-> name, avatar_hash |-> "a1", joined_at |-> "t0",
     created_at |-> "t0", is_staff |-> is_staff, bot |-> FALSE, opt_out |-> opt_out]

\* Ann is known with a stale staff flag, Bob has opted out.
KnownUsers ==
    SetToBag({ StoredUser("u1", "ann", FALSE, FALSE),
               StoredUser("u2", "bob", FALSE, TRUE) })

\* Ann and Bob are known and both have opted out.
OptedOutUsers ==
    SetToBag({ StoredUser("u1", "ann", FALSE, TRUE),
               StoredUser("u2", "bob", FALSE, TRUE) })

\* The roster of the guild with the users table at start.
Memberships ==
    { << << >>, KnownUsers >>, << << Ann >>, EmptyBag >>,
      << << Ann, Bob, Cy >>, OptedOutUsers >> }

StoredChannel(id, category_id, is_staff) ==
    [id |-> id, name |-> "old", category_id |-> category_id, is_staff |-> is_staff]

\* The categories and channels tables at start: stale rows of c1, t1 and t3.
StoredCategories == SetToBag({ [id |-> "c1", name |-> "old"] })

StoredChannels ==
    SetToBag({ StoredChannel("t1", None, TRUE), StoredChannel("t3", "c1", TRUE) })

\* For the runs that follow one another: also no rows, and stale rows of
\* every channel.
StoredTopologies ==
    { << EmptyBag, EmptyBag >>,
      << StoredCategories, StoredChannels >>,
      << StoredCategories (+) SetToBag({ [id |-> "c2", name |-> "old"] }),
         StoredChannels (+) SetToBag({ StoredChannel("t2", "c1", FALSE) }) >> }

Topologies == { TopoPlain, TopoStaff, TopoIgnored, TopoOrphan, TopoEmpty }

\* -------------------------------------------------------------- events
Msg(id, channel, category, author) ==
    [id |-> id, channel |-> channel, category |-> category, author |-> author,
     created_at |-> "t1"]

NoMessage == Msg(None, None, None, None)

Event(kind, guild, member, message) ==
    [kind |-> kind, guild |-> guild, member |-> member, message |-> message]

NoEvent == Event("none", None, NoMember, NoMessage)

Guilds == {guild_id, OtherGuild}

\* Handlers inside sync_channels, suspended on a store operation.
SyncPcs == {"Category_get", "Category_update", "Category_create",
            "Channel_get", "Channel_update", "Channel_create"}

\* Handlers suspended on a store operation of any kind.
StorePcs == SyncPcs \cup {"bulk_upsert", "join_get", "join_update", "join_create",
                          "update_get", "update_update", "update_create",
                          "message_get", "Message_create"}

\* Handlers that have ended: at a return (the last line, "done"; the guild
\* tests, "skipped"; the other early returns by their reason) or with an
\* exception.
EndPcs == {"done", "skipped", "no_joined_at", "unchanged", "unknown_author",
           "opted_out", "ignored", "err_store", "err_unique", "err_attr"}

SyncsInFlight == { g \in Handlers : pc[g] \in SyncPcs }

\* --------------------------------------------------------------- gates
\* asyncio.Event.set() resolves the future of every waiter; the waiter runs
\* again in a later step.
Woken(p, topology, membership) ==
    IF topology /\ p = "message_wait" THEN "message_woken"
    ELSE IF membership /\ p = "join_wait" THEN "join_woken"
    ELSE IF membership /\ p = "update_wait" THEN "update_woken"
    ELSE p

\* "await sync_process_complete.wait()" and "await
\* channel_sync_in_progress.wait()" suspend the handler when the gate is
\* cleared and not otherwise.
\* Mutants: the handler does not wait.
AwaitsRosterNever(complete) == FALSE

AwaitsTopologyNever(synced) == FALSE

AwaitsRoster(complete) == ~complete

AwaitsTopology(synced) == ~synced

\* Handler h, handling event, suspends at p with loop position i (or ends,
\* p in EndPcs), leaving the gates at tg (channel_sync_in_progress) and mg
\* (sync_process_complete).  A handler that has ended has no event left.
Continue(h, event, p, i, tg, mg) ==
    /\ UNCHANGED << listed, size, yielded >>
    /\ channel_sync_in_progress' = tg
    /\ sync_process_complete' = mg
    /\ pc' = [ g \in Handlers |->
                IF g = h THEN p
                ELSE Woken(pc[g], tg /\ ~channel_sync_in_progress,
                                  mg /\ ~sync_process_complete) ]
    /\ idx' = [idx EXCEPT ![h] = i]
    /\ ev' = [ev EXCEPT ![h] = IF p \in EndPcs THEN NoEvent ELSE event]
    /\ inFlight' = [inFlight EXCEPT ![h] =
                       IF p \in EndPcs \/ event.kind # "message" THEN {}
                       ELSE IF pc[h] = "idle" THEN SyncsInFlight
                       ELSE inFlight[h]]

\* The same, the gates left as they are.
Goes(h, event, p, i) ==
    Continue(h, event, p, i, channel_sync_in_progress, sync_process_complete)

\* Handler h ends: it returns ("done") or an exception leaves it.
End(h, event, p) == Goes(h, event, p, 0)

\* Mutant: on_guild_available sets the gate before the chunks are written.
AfterSyncSetsFirst(event) ==
    IF event.kind # "guild_available" THEN
        [pc |-> "done", idx |-> 0, complete |-> sync_process_complete]
    ELSE IF UserChunks = << >> THEN [pc |-> "done", idx |-> 0, complete |-> TRUE]
    ELSE [pc |-> "bulk_upsert", idx |-> 1, complete |-> TRUE]

\* What the caller of sync_channels does when it returns, up to its next
\* await: on_guild_available builds the rows and starts on the chunks, or
\* sets sync_process_complete when there is none (lines 123-148).
AfterSync(event) ==
    IF event.kind # "guild_available" THEN
        [pc |-> "done", idx |-> 0, complete |-> sync_process_complete]
    ELSE IF UserChunks = << >> THEN [pc |-> "done", idx |-> 0, complete |-> TRUE]
    ELSE [pc |-> "bulk_upsert", idx |-> 1, complete |-> sync_process_complete]

\* The log keeps the tables at the last two returns of sync_channels.
Logged(log, tables) ==
    IF Len(log) < 2 THEN Append(log, tables) ELSE << log[2], tables >>

\* sync_channels moves on to point; tg is the gate as this segment left it.
\* At "sync_return" line 76 sets the gate and the caller goes on.
SyncGoto(h, event, point, tg) ==
    IF point.pc # "sync_return" THEN
        /\ Continue(h, event, point.pc, point.idx, tg, sync_process_complete)
        /\ syncLog' = syncLog
    ELSE
        /\ Continue(h, event, AfterSync(event).pc, AfterSync(event).idx, TRUE,
                    AfterSync(event).complete)
        /\ syncLog' = Logged(syncLog, << categories', channels' >>)

\* sync_channels(guild) from its first line: clear the gate, then the loops.
sync_channels(h, event) == SyncGoto(h, event, FirstLoop(0), FALSE)

\* ------------------------------------------------------ event delivery
\* The platform delivers an event to a fresh handler h.
Delivers(h) ==
    /\ pc[h] = "idle"
    /\ \A g \in Handlers : g < h => pc[g] # "idle"

Environment == << guildChannels, guildMembers >>
Tables == << categories, channels, users, messages >>

on_guild_channel_create(h) ==
    \E guild \in Guilds :
        LET event == Event("guild_channel_create", guild, NoMember, NoMessage)
        IN /\ Delivers(h)
           /\ UNCHANGED << Environment, Tables >>
           /\ IF guild # guild_id
              THEN End(h, event, "skipped") /\ syncLog' = syncLog
              ELSE sync_channels(h, event)

on_guild_channel_update(h) ==
    \E guild \in Guilds :
        LET event == Event("guild_channel_update", guild, NoMember, NoMessage)
        IN /\ Delivers(h)
           /\ UNCHANGED << Environment, Tables >>
           /\ IF guild # guild_id
              THEN End(h, event, "skipped") /\ syncLog' = syncLog
              ELSE sync_channels(h, event)

on_guild_available(h) ==
    \E guild \in Guilds :
        LET event == Event("guild_available", guild, NoMember, NoMessage)
        IN /\ Delivers(h)
           /\ UNCHANGED << Environment, Tables >>
           /\ IF guild # guild_id
              THEN End(h, event, "skipped") /\ syncLog' = syncLog
              ELSE sync_channels(h, event)

\* ------------------------------------------- sync_channels, first loop
Category_get(h) ==
    LET channel == guildChannels[idx[h]]
    IN /\ pc[h] = "Category_get"
       /\ Goes(h, ev[h], IF Has(categories, channel.id) THEN "Category_update"
                         ELSE "Category_create", idx[h])
       /\ UNCHANGED << Environment, Tables, syncLog >>

Category_update(h) ==
    LET channel == guildChannels[idx[h]]
    IN /\ pc[h] = "Category_update"
       /\ categories' = Update(categories, channel.id, [name |-> channel.name])
       /\ UNCHANGED << Environment, channels, users, messages >>
       /\ SyncGoto(h, ev[h], FirstLoop(idx[h]), channel_sync_in_progress)

Category_create(h) ==
    LET channel == guildChannels[idx[h]]
    IN /\ pc[h] = "Category_create"
       /\ UNCHANGED << Environment, channels, users, messages >>
       /\ IF Has(categories, channel.id)
          THEN /\ UNCHANGED << categories, syncLog >>
               /\ End(h, ev[h], "err_unique")
          ELSE /\ categories' = Insert(categories, CategoryFields(channel))
               /\ SyncGoto(h, ev[h], FirstLoop(idx[h]), channel_sync_in_progress)

\* ------------------------------------------ sync_channels, second loop
Channel_get(h) ==
    LET channel == guildChannels[idx[h]]
    IN /\ pc[h] = "Channel_get"
       /\ UNCHANGED << Environment, Tables, syncLog >>
       /\ IF ChannelRaises(channel) THEN End(h, ev[h], "err_attr")
          ELSE Goes(h, ev[h], IF Has(channels, channel.id) THEN "Channel_update"
                              ELSE "Channel_create", idx[h])

Channel_update(h) ==
    LET channel == guildChannels[idx[h]]
    IN /\ pc[h] = "Channel_update"
       /\ channels' = Update(channels, channel.id, ChannelUpdateFields(channel))
       /\ UNCHANGED << Environment, categories, users, messages >>
       /\ SyncGoto(h, ev[h], SecondLoop(idx[h]), channel_sync_in_progress)

Channel_create(h) ==
    LET channel == guildChannels[idx[h]]
    IN /\ pc[h] = "Channel_create"
       /\ UNCHANGED << Environment, categories, users, messages >>
       /\ IF Has(channels, channel.id)
          THEN /\ UNCHANGED << channels, syncLog >>
               /\ End(h, ev[h], "err_unique")
          ELSE /\ channels' = Insert(channels, ChannelCreateFields(channel))
               /\ SyncGoto(h, ev[h], SecondLoop(idx[h]), channel_sync_in_progress)

\* -------------------------------------- on_guild_available, the roster
\* One "await User.bulk_upsert(chunk)" of the loop at lines 142-144; after
\* the last chunk line 148 sets sync_process_complete.
User_bulk_upsert(h) ==
    /\ pc[h] = "bulk_upsert"
    /\ users' = bulk_upsert(users, UserChunks[idx[h]])
    /\ UNCHANGED << Environment, categories, channels, messages, syncLog >>
    /\ IF idx[h] < Len(UserChunks)
       THEN Goes(h, ev[h], "bulk_upsert", idx[h] + 1)
       ELSE Continue(h, ev[h], "done", 0, channel_sync_in_progress, TRUE)

\* ------------------------------------------------------ on_member_join
\* Mutant: the guild of the event is not looked at.
JoinEntersAnyGuild(h, event) == Goes(h, event, "join_get", 0)

\* After "await sync_process_complete.wait()": the guild test, then User.get.
JoinEnters(h, event) ==
    IF event.guild # guild_id THEN End(h, event, "skipped")
    ELSE Goes(h, event, "join_get", 0)

on_member_join(h) ==
    \E input \in JoinInputs :
        LET event == Event("member_join", input[1], input[2], NoMessage)
        IN /\ Delivers(h)
           /\ UNCHANGED << Environment, Tables, syncLog >>
           /\ IF AwaitsRoster(sync_process_complete)
              THEN Goes(h, event, "join_wait", 0)
              ELSE JoinEnters(h, event)

on_member_join_resume(h) ==
    /\ pc[h] = "join_woken"
    /\ JoinEnters(h, ev[h])
    /\ UNCHANGED << Environment, Tables, syncLog >>

on_member_join_get(h) ==
    /\ pc[h] = "join_get"
    /\ Goes(h, ev[h], IF Has(users, ev[h].member.id) THEN "join_update"
                      ELSE "join_create", 0)
    /\ UNCHANGED << Environment, Tables, syncLog >>

on_member_join_update(h) ==
    /\ pc[h] = "join_update"
    /\ users' = Update(users, ev[h].member.id, MemberFields(ev[h].member))
    /\ End(h, ev[h], "done")
    /\ UNCHANGED << Environment, categories, channels, messages, syncLog >>

\* Mutant: the exception is not caught.
OnUniqueViolationRaised == "err_unique"

\* How the handler ends when User.create raises UniqueViolationError:
\* "except UniqueViolationError: pass" (lines 178-179 and 219-220).
OnUniqueViolation == "done"

on_member_join_create(h) ==
    /\ pc[h] = "join_create"
    /\ IF Has(users, ev[h].member.id)
       THEN UNCHANGED users /\ End(h, ev[h], OnUniqueViolation)
       ELSE /\ users' = Insert(users, UserRow(MemberFields(ev[h].member)))
            /\ End(h, ev[h], "done")
    /\ UNCHANGED << Environment, categories, channels, messages, syncLog >>

\* ---------------------------------------------------- on_member_update
\* Mutant: joined_at is not looked at.
UpdateEntersAnyJoinedAt(h, event) ==
    IF event.guild # guild_id THEN End(h, event, "skipped")
    ELSE Goes(h, event, "update_get", 0)

\* After the wait: the guild test, the joined_at test, then User.get.
UpdateEnters(h, event) ==
    IF event.guild # guild_id THEN End(h, event, "skipped")
    ELSE IF event.member.joined_at = None THEN End(h, event, "no_joined_at")
    ELSE Goes(h, event, "update_get", 0)

\* Lines 195-200.  Python chains "x in roles != db_user.is_staff" into
\* "x in roles and roles != db_user.is_staff", and a list never equals a
\* bool, so the third operand is: the member holds the staff role.
RolesDifferFrom(roles, is_staff) == TRUE

MemberChanged(db_user, member) ==
    \/ db_user.name # member.name
    \/ db_user.avatar_hash # member.avatar
    \/ (staff_role_id \in member.roles /\ RolesDifferFrom(member.roles, db_user.is_staff))

on_member_update(h) ==
    \E input \in UpdateInputs :
        LET event == Event("member_update", input[1], input[2], NoMessage)
        IN /\ Delivers(h)
           /\ UNCHANGED << Environment, Tables, syncLog >>
           /\ IF AwaitsRoster(sync_process_complete)
              THEN Goes(h, event, "update_wait", 0)
              ELSE UpdateEnters(h, event)

on_member_update_resume(h) ==
    /\ pc[h] = "update_woken"
    /\ UpdateEnters(h, ev[h])
    /\ UNCHANGED << Environment, Tables, syncLog >>

on_member_update_get(h) ==
    LET member == ev[h].member
    IN /\ pc[h] = "update_get"
       /\ UNCHANGED << Environment, Tables, syncLog >>
       /\ IF ~Has(users, member.id) THEN Goes(h, ev[h], "update_create", 0)
          ELSE IF MemberChanged(Row(users, member.id), member)
          THEN Goes(h, ev[h], "update_update", 0)
          ELSE End(h, ev[h], "unchanged")

on_member_update_update(h) ==
    /\ pc[h] = "update_update"
    /\ users' = Update(users, ev[h].member.id, MemberFields(ev[h].member))
    /\ End(h, ev[h], "done")
    /\ UNCHANGED << Environment, categories, channels, messages, syncLog >>

on_member_update_create(h) ==
    /\ pc[h] = "update_create"
    /\ IF Has(users, ev[h].member.id)
       THEN UNCHANGED users /\ End(h, ev[h], OnUniqueViolation)
       ELSE /\ users' = Insert(users, UserRow(MemberFields(ev[h].member)))
            /\ End(h, ev[h], "done")
    /\ UNCHANGED << Environment, categories, channels, messages, syncLog >>

\* ---------------------------------------------------------- on_message
\* message.channel is a text channel of the guild, its category the one the
\* source topology gives it; or the message is a direct one (no guild) or
\* of another guild.
MessageInputs ==
    { << guild_id, Msg(id, guildChannels[j].id, guildChannels[j].category, author) >> :
        id \in MessageIds,
        author \in Authors,
        j \in { k \in DOMAIN guildChannels : guildChannels[k].kind = "text" } }
    \cup { << None, Msg("m1", "dm", None, "u1") >>,
           << OtherGuild, Msg("m1", "x1", None, "u1") >> }

on_message(h) ==
    \E input \in MessageInputs :
        LET event == Event("message", input[1], NoMember, input[2])
        IN /\ Delivers(h)
           /\ UNCHANGED << Environment, Tables, syncLog >>
           /\ IF event.guild = None THEN End(h, event, "skipped")
              ELSE IF event.guild # guild_id THEN End(h, event, "skipped")
              ELSE IF AwaitsTopology(channel_sync_in_progress)
              THEN Goes(h, event, "message_wait", 0)
              ELSE Goes(h, event, "message_get", 0)

on_message_resume(h) ==
    /\ pc[h] = "message_woken"
    /\ Goes(h, ev[h], "message_get", 0)
    /\ UNCHANGED << Environment, Tables, syncLog >>

\* Mutant: opt_out is not looked at.
FilteredButOptOut(tbl, message) ==
    IF ~Has(tbl, message.author) THEN "unknown_author"
    ELSE IF message.category \in ignore_categories THEN "ignored"
    ELSE "Message_create"

\* Mutant: the ignored categories are not looked at.
FilteredButIgnored(tbl, message) ==
    IF ~Has(tbl, message.author) THEN "unknown_author"
    ELSE IF Row(tbl, message.author).opt_out THEN "opted_out"
    ELSE "Message_create"

\* Lines 234-243, with the result of User.get: the author's row, its
\* opt_out, then the ignored categories; what is left goes to Message.create.
Filtered(tbl, message) ==
    IF ~Has(tbl, message.author) THEN "unknown_author"
    ELSE IF Row(tbl, message.author).opt_out THEN "opted_out"
    ELSE IF message.category \in ignore_categories THEN "ignored"
    ELSE "Message_create"

on_message_get(h) ==
    /\ pc[h] = "message_get"
    /\ UNCHANGED << Environment, Tables, syncLog >>
    /\ Goes(h, ev[h], Filtered(users, ev[h].message), 0)

MessageFields(message) ==
    [id |-> message.id, channel_id |-> message.channel,
     author_id |-> message.author, created_at |-> message.created_at]

\* Mutant: the duplicate is swallowed, as User.create's is.
OnDuplicateMessageSwallowed == "done"

\* How the handler ends when Message.create raises UniqueViolationError:
\* nothing catches it (lines 245-250).
OnDuplicateMessage == "err_unique"

Message_create(h) ==
    /\ pc[h] = "Message_create"
    /\ UNCHANGED << Environment, categories, channels, users, syncLog >>
    /\ IF Has(messages, ev[h].message.id)
       THEN UNCHANGED messages /\ End(h, ev[h], OnDuplicateMessage)
       ELSE /\ messages' = Insert(messages, MessageFields(ev[h].message))
            /\ End(h, ev[h], "done")

\* ------------------------------------------------------ store failures
\* Any store operation may raise (connection lost, statement refused): the
\* exception leaves the handler, discord.py logs it and goes on.
StoreFails(h) ==
    /\ pc[h] \in StorePcs
    /\ End(h, ev[h], "err_store")
    /\ UNCHANGED << Environment, Tables, syncLog >>

\* ------------------------------------------------------- specification
\* The store and the platform at start, for the topology and message events:
\* stale rows in the tables, both gates cleared (lines 25-26), no handler
\* running.
InitTopology ==
    /\ guildChannels \in Topologies
    /\ guildMembers = << >>
    /\ categories = StoredCategories
    /\ channels = StoredChannels
    /\ users = KnownUsers
    /\ messages = EmptyBag
    /\ sync_process_complete = FALSE
    /\ channel_sync_in_progress = FALSE
    /\ ev = [ h \in Handlers |-> NoEvent ]
    /\ pc = [ h \in Handlers |-> "idle" ]
    /\ idx = [ h \in Handlers |-> 0 ]
    /\ inFlight = [ h \in Handlers |-> {} ]
    /\ syncLog = << >>
    /\ listed = << >>
    /\ size = 0
    /\ yielded = << >>

\* The same for the membership events: a roster and the users table.
InitMembers ==
    /\ guildChannels = TopoPlain
    /\ \E m \in Memberships : guildMembers = m[1] /\ users = m[2]
    /\ categories = EmptyBag
    /\ channels = EmptyBag
    /\ messages = EmptyBag
    /\ sync_process_complete = FALSE
    /\ channel_sync_in_progress = FALSE
    /\ ev = [ h \in Handlers |-> NoEvent ]
    /\ pc = [ h \in Handlers |-> "idle" ]
    /\ idx = [ h \in Handlers |-> 0 ]
    /\ inFlight = [ h \in Handlers |-> {} ]
    /\ syncLog = << >>
    /\ listed = << >>
    /\ size = 0
    /\ yielded = << >>

\* The topology and message events and their handlers' steps.
NextTopology ==
    \E h \in Handlers :
        \/ on_guild_channel_create(h)
        \/ on_guild_channel_update(h)
        \/ on_guild_available(h)
        \/ Category_get(h)
        \/ Category_update(h)
        \/ Category_create(h)
        \/ Channel_get(h)
        \/ Channel_update(h)
        \/ Channel_create(h)
        \/ on_message(h)
        \/ on_message_resume(h)
        \/ on_message_get(h)
        \/ Message_create(h)
        \/ StoreFails(h)

\* The membership events and their handlers' steps.
NextMembers ==
    \E h \in Handlers :
        \/ on_guild_available(h)
        \/ Category_get(h)
        \/ Category_update(h)
        \/ Category_create(h)
        \/ Channel_get(h)
        \/ Channel_update(h)
        \/ Channel_create(h)
        \/ User_bulk_upsert(h)
        \/ on_member_join(h)
        \/ on_member_join_resume(h)
        \/ on_member_join_get(h)
        \/ on_member_join_update(h)
        \/ on_member_join_create(h)
        \/ on_member_update(h)
        \/ on_member_update_resume(h)
        \/ on_member_update_get(h)
        \/ on_member_update_update(h)
        \/ on_member_update_create(h)
        \/ StoreFails(h)

SpecTopology == InitTopology /\ [][NextTopology]_vars

SpecMembers == InitMembers /\ [][NextMembers]_vars

\* The topology events delivered one at a time: an event arrives only when
\* no handler is in flight, so the runs of sync_channels follow one another.
Quiet == \A g \in Handlers : pc[g] \in EndPcs \cup {"idle"}

NextSeq ==
    \E h \in Handlers :
        \/ Quiet /\ on_guild_channel_create(h)
        \/ Quiet /\ on_guild_channel_update(h)
        \/ Quiet /\ on_guild_available(h)
        \/ Category_get(h)
        \/ Category_update(h)
        \/ Category_create(h)
        \/ Channel_get(h)
        \/ Channel_update(h)
        \/ Channel_create(h)
        \/ StoreFails(h)

InitSeq ==
    /\ guildChannels \in Topologies
    /\ guildMembers = << >>
    /\ \E stored \in StoredTopologies :
          categories = stored[1] /\ channels = stored[2]
    /\ users = KnownUsers
    /\ messages = EmptyBag
    /\ sync_process_complete = FALSE
    /\ channel_sync_in_progress = FALSE
    /\ ev = [ h \in Handlers |-> NoEvent ]
    /\ pc = [ h \in Handlers |-> "idle" ]
    /\ idx = [ h \in Handlers |-> 0 ]
    /\ inFlight = [ h \in Handlers |-> {} ]
    /\ syncLog = << >>
    /\ listed = << >>
    /\ size = 0
    /\ yielded = << >>

SpecSeq == InitSeq /\ [][NextSeq]_vars

\* ================================================================ claims

\* The message handlers past the gate wait.
PastGate == {"message_get", "Message_create"}

\* C1: a message event that arrives while a run of sync_channels is in
\* flight does not get past the gate wait until that very run has finished,
\* even if another run sets the gate meanwhile.
C1_WaitsForRunInFlight ==
    \A h \in Handlers :
        pc[h] \in PastGate => \A r \in inFlight[h] : pc[r] \notin SyncPcs

\* C2: a Message row exists, and a message handler is past the gate wait,
\* only if some run of sync_channels has returned before.
C2_MessagesAfterSync ==
    (messages # EmptyBag \/ \E h \in Handlers : pc[h] \in PastGate)
        => Len(syncLog) >= 1

C2_Witness == messages # EmptyBag /\ Len(syncLog) = 1

\* Every member of the roster has a row in the users table.
RosterStored ==
    \A k \in DOMAIN guildMembers : Has(users, guildMembers[k].id)

\* The member handlers at a User store operation.
UserOpPcs == {"join_get", "join_update", "join_create",
              "update_get", "update_update", "update_create"}

\* C3: no join or update handler is at a User store operation before the
\* whole roster has been upserted.
C3_MemberOpsAfterRoster ==
    \A h \in Handlers : pc[h] \in UserOpPcs => RosterStored

\* A join handler has found the row of Cy, who is in the last chunk.
C3_Witness ==
    /\ Len(guildMembers) = 3
    /\ \E h \in Handlers : pc[h] = "join_update" /\ ev[h].member.id = "u3"

\* C4: sync_process_complete is set only with every chunk of the roster
\* written; a handling whose chunk failed leaves it as it was.
C4_GateAfterAllChunks == sync_process_complete => RosterStored

\* One handling lost a chunk to a store failure, another wrote both chunks
\* and set the gate.
C4_Witness ==
    /\ sync_process_complete
    /\ Len(UserChunks) = 2
    /\ \E h \in Handlers : pc[h] = "err_store"

\* C5: a User.create of a join handler, whether it inserts the row or the
\* store rejects it as a duplicate, ends the handler without an exception
\* and leaves exactly one row with the member's id; no id ever has two rows.
C5_ConcurrentJoins ==
    [][ /\ \A id \in UserIds : Count(users', id) <= 1
        /\ \A h \in Handlers :
              (pc[h] = "join_create" /\ pc'[h] \notin {"join_create", "err_store"})
                  => /\ pc'[h] = "done"
                     /\ Count(users', ev[h].member.id) = 1 ]_vars

\* Two join handlers of one new member, both past User.get, both about to
\* create the row.
C5_Witness ==
    \E g, h \in Handlers :
        /\ g # h
        /\ pc[g] = "join_create" /\ pc[h] = "join_create"
        /\ ev[g].member.id = ev[h].member.id
        /\ ~Has(users, ev[g].member.id)

\* C6: every Message row has an author with a User row whose opt_out is
\* false (no handler writes opt_out or deletes a row, so this is the row the
\* handler read).
C6_AuthorKnownNotOptedOut ==
    \A m \in Rows(messages) :
        Has(users, m.author_id) /\ ~Row(users, m.author_id).opt_out

\* A message of Ann is recorded, one of Bob, who opted out, is not.
C6_Witness ==
    /\ \E m \in Rows(messages) : m.author_id = "u1"
    /\ \E h \in Handlers : pc[h] = "opted_out"

\* The parent category the source topology gives the channel with this id.
SourceCategory(id) ==
    guildChannels[CHOOSE j \in DOMAIN guildChannels : guildChannels[j].id = id].category

\* C7: no Message row is of a channel whose parent category is in
\* ignore_categories.
C7_IgnoredNeverRecorded ==
    \A m \in Rows(messages) : SourceCategory(m.channel_id) \notin ignore_categories

\* With the gate set, a handler has dropped a message for its category (its
\* author is known and has not opted out: those tests come first).
C7_Witness ==
    /\ channel_sync_in_progress
    /\ \E h \in Handlers : pc[h] = "ignored"
    /\ messages = EmptyBag

\* The three tracked values of the stored row against the event's.
TrackedDiffer(db_user, member) ==
    \/ db_user.name # member.name
    \/ db_user.avatar_hash # member.avatar
    \/ db_user.is_staff # HasStaffRole(member)

\* C8: an update handler that finds the member's row issues a write exactly
\* when a tracked value differs, and the write stores the member's staff
\* flag.
C8_WriteIffTrackedDiffer ==
    [][ \A h \in Handlers :
          /\ (pc[h] = "update_get" /\ pc'[h] \notin {"update_get", "err_store"}
                 /\ Has(users, ev[h].member.id))
                => ((pc'[h] = "update_update")
                      <=> TrackedDiffer(Row(users, ev[h].member.id), ev[h].member))
          /\ (pc[h] = "update_update" /\ pc'[h] = "done")
                => Row(users', ev[h].member.id).is_staff = HasStaffRole(ev[h].member)
      ]_vars

\* C9: of two runs of sync_channels that follow one another on the same
\* source topology, the second returns with the tables as the first left
\* them.
C9_SyncIdempotent == Len(syncLog) = 2 => syncLog[1] = syncLog[2]

\* Two runs have returned, and the first had rows to create or correct.
C9_Witness ==
    /\ Len(syncLog) = 2
    /\ syncLog[2] \notin StoredTopologies

\* What the claim has the channels table hold for a source channel.
ExpectedChannel(channel) ==
    [id |-> channel.id, name |-> channel.name, category_id |-> channel.category,
     is_staff |-> channel.category \in staff_categories]

\* C10: after a run of sync_channels (it has returned, or has raised
\* AttributeError), every source channel that is neither a category nor a
\* voice channel, with no parent or a parent outside ignore_categories, has
\* one row with the source name, the parent's id (None without a parent)
\* and is_staff true exactly for a parent in staff_categories.
C10_ChannelsMatchSource ==
    (Len(syncLog) >= 1 \/ \E h \in Handlers : pc[h] = "err_attr")
        => \A j \in DOMAIN guildChannels :
              (/\ guildChannels[j].kind \notin {"category", "voice"}
               /\ guildChannels[j].category \notin ignore_categories)
                  => /\ ExpectedChannel(guildChannels[j]) \in Rows(channels)
                     /\ Count(channels, guildChannels[j].id) = 1

\* C11: with the events handled one at a time, once a run of sync_channels
\* has returned (and so set channel_sync_in_progress), every later handling
\* that has ended, by its return or by a store failure, has left the gate as
\* it was before it began: set.
C11_GatesSurviveStoreFailure ==
    (Quiet /\ Len(syncLog) >= 1) => channel_sync_in_progress

\* C12: a Message.create for an id that already has a row ends the handler
\* with the exception (or with a failure of the store), leaves the messages
\* table as it was, and no id ever has two rows.
C12_DuplicateMessageRaises ==
    [][ /\ \A id \in MessageIds : Count(messages', id) <= 1
        /\ \A h \in Handlers :
              (/\ pc[h] = "Message_create"
               /\ pc'[h] # "Message_create"
               /\ Has(messages, ev[h].message.id))
                  => /\ pc'[h] \in {"err_unique", "err_store"}
                     /\ messages' = messages ]_vars

\* One run of sync_channels has returned, one message handler has recorded
\* m1 and another, handed m1 again, has ended with the duplicate key error.
C12_Witness ==
    /\ Len(syncLog) = 1
    /\ Count(messages, "m1") = 1
    /\ \E g, h \in Handlers :
          /\ pc[g] = "done" /\ pc[h] = "err_unique"
          /\ \A k \in Handlers \ {g, h} : pc[k] = "done"

\* The events of another guild, of all six kinds, among the topology events
\* of the target guild, which set and clear the gates.  A member or message
\* event is delivered here only if it is not of the target guild.
Foreign(h) == pc'[h] = "skipped" \/ ev'[h].guild = OtherGuild

InitForeign ==
    /\ guildChannels = TopoPlain
    /\ guildMembers = << Ann >>
    /\ categories = EmptyBag
    /\ channels = EmptyBag
    /\ users = KnownUsers
    /\ messages = EmptyBag
    /\ sync_process_complete = FALSE
    /\ channel_sync_in_progress = FALSE
    /\ ev = [ h \in Handlers |-> NoEvent ]
    /\ pc = [ h \in Handlers |-> "idle" ]
    /\ idx = [ h \in Handlers |-> 0 ]
    /\ inFlight = [ h \in Handlers |-> {} ]
    /\ syncLog = << >>
    /\ listed = << >>
    /\ size = 0
    /\ yielded = << >>

NextForeign ==
    \E h \in Handlers :
        \/ on_guild_channel_create(h)
        \/ on_guild_channel_update(h)
        \/ on_guild_available(h)
        \/ Category_get(h)
        \/ Category_update(h)
        \/ Category_create(h)
        \/ Channel_get(h)
        \/ Channel_update(h)
        \/ Channel_create(h)
        \/ User_bulk_upsert(h)
        \/ on_member_join(h) /\ Foreign(h)
        \/ on_member_join_resume(h)
        \/ on_member_update(h) /\ Foreign(h)
        \/ on_member_update_resume(h)
        \/ on_message(h) /\ Foreign(h)
        \/ StoreFails(h)

SpecForeign == InitForeign /\ [][NextForeign]_vars

\* Handler h takes this step (a waiter that set() wakes does not).
Acts(h) ==
    pc'[h] # pc[h] /\ pc'[h] \notin {"message_woken", "join_woken", "update_woken"}

\* C13: a step of a handler whose event is not of the target guild changes
\* no table and neither gate, and takes the handler to its return or to the
\* wait on the membership gate, never to a store operation.
C13_OtherGuildChangesNothing ==
    [][ \A h \in Handlers :
          (Acts(h) /\ (pc'[h] = "skipped" \/ ev[h].guild = OtherGuild
                          \/ ev'[h].guild = OtherGuild))
              => /\ UNCHANGED << Tables, sync_process_complete,
                                 channel_sync_in_progress >>
                 /\ pc'[h] \in {"skipped", "join_wait", "update_wait"} ]_vars

\* With both gates set and rows stored, one event of another guild has been
\* dropped and an update handler of another guild, released by the gate, is
\* about to test its guild.
C13_Witness ==
    /\ sync_process_complete /\ channel_sync_in_progress
    /\ Has(users, "u1") /\ Has(channels, "t1")
    /\ \E g, h \in Handlers :
          /\ pc[g] = "skipped"
          /\ pc[h] = "update_woken" /\ ev[h].guild = OtherGuild

\* C14: every step leaves each stored User row a row of the same id with
\* the same opt_out, whatever else of it the step writes.
C14_OptOutKept ==
    [][ \A r \in Rows(users) :
          /\ \E q \in Rows(users') : q.id = r.id
          /\ \A q \in Rows(users') : q.id = r.id => q.opt_out = r.opt_out ]_vars

\* Ann and Bob had opted out before the process started; the bulk upsert
\* has rewritten Bob's row and an update handler Ann's, and both still have
\* opted out.
C14_Witness ==
    /\ sync_process_complete
    /\ Row(users, "u1").name = "zed" /\ Row(users, "u1").opt_out
    /\ Row(users, "u2").bot /\ Row(users, "u2").opt_out

\* The awaits of the second loop of sync_channels.
ChannelPcs == {"Channel_get", "Channel_update", "Channel_create"}

\* C15: every Channel row with a category_id has that Category row stored,
\* and a run that has reached its second loop has written, in its first,
\* the row of every category of the source.
C15_ChannelsReferenceCategories ==
    /\ \A r \in Rows(channels) :
          r.category_id # None => Has(categories, r.category_id)
    /\ \A h \in Handlers :
          pc[h] \in ChannelPcs
              => \A j \in DOMAIN guildChannels :
                    IsCategory(guildChannels[j])
                        => CategoryFields(guildChannels[j]) \in Rows(categories)

\* A run has created the category c2 and then the channel t2 in it, while
\* another run is in its second loop.
C15_Witness ==
    /\ \E r \in Rows(channels) : r.id = "t2" /\ r.category_id = "c2"
    /\ Has(categories, "c2")
    /\ \E h \in Handlers : pc[h] \in ChannelPcs

\* The topology events one at a time with a store that never fails, and
\* the event loop's scheduling: a run suspended on a store operation is
\* resumed when the operation returns.
SyncStep(h) ==
    \/ Category_get(h)
    \/ Category_update(h)
    \/ Category_create(h)
    \/ Channel_get(h)
    \/ Channel_update(h)
    \/ Channel_create(h)

NextLive ==
    \E h \in Handlers :
        \/ Quiet /\ on_guild_channel_create(h)
        \/ Quiet /\ on_guild_channel_update(h)
        \/ Quiet /\ on_guild_available(h)
        \/ SyncStep(h)

SpecLive ==
    /\ InitSeq
    /\ [][NextLive]_vars
    /\ \A h \in Handlers : WF_vars(SyncStep(h))

\* C16: every run of sync_channels that has started returns, with the gate
\* set, whatever the source topology.
C16_RunsComplete ==
    \A h \in Handlers :
        (pc[h] \in SyncPcs) ~> (pc[h] = "done" /\ channel_sync_in_progress)

\* C17: a message handler performs its author lookup (with the filtering
\* that follows it) and its Message.create only in a state where
\* channel_sync_in_progress is set.
C17_FiltersOnlyWhileGateSet ==
    [][ \A h \in Handlers :
          (pc[h] \in PastGate /\ pc'[h] \notin {pc[h], "err_store"})
              => channel_sync_in_progress ]_vars

\* C18: a run of sync_channels, overlapping with others or not, does not
\* end with the store's duplicate key error: a step of a run leaves it in
\* the run, takes it to its return, or is a failure of the store itself (or
\* the AttributeError of a channel without a category).
C18_OverlappingRunsComplete ==
    [][ \A h \in Handlers :
          pc[h] \in SyncPcs => pc'[h] # "err_unique" ]_vars

\* C19: an update handler whose event has no joined_at is never at a User
\* store operation: it waits on the gate and, once released, returns; that
\* step changes no table, and the name the event carries for Cy is never
\* stored.
C19_NoJoinedAtIgnored ==
    [][ /\ \A h \in Handlers :
              (ev'[h].kind = "member_update" /\ ev'[h].member.joined_at = None)
                  => pc'[h] \in {"update_wait", "update_woken"}
        /\ \A h \in Handlers :
              (/\ ev[h].kind = "member_update"
               /\ ev[h].member.joined_at = None
               /\ Acts(h))
                  => pc'[h] = "no_joined_at"
        /\ \A h \in Handlers :
              (Acts(h) /\ pc'[h] = "no_joined_at") => UNCHANGED Tables
        /\ \A r \in Rows(users') : r.id = "u3" => r.name = "cy" ]_vars

\* With the membership gate set, an update without joined_at for Cy, who has
\* no row, has been dropped, and another for her waits released.
C19_Witness ==
    /\ sync_process_complete
    /\ ~Has(users, "u3")
    /\ \E g, h \in Handlers :
          /\ pc[g] = "no_joined_at"
          /\ pc[h] = "update_woken" /\ ev[h].member.joined_at = None

\* ------------------------------------------------------------ gen_chunks
\* The longest list and the largest chunk size a call of gen_chunks is given.
MaxLen == 4
MaxChunk == 3

\* The lists of at most MaxLen records (a record stands by its id).
Lists == UNION { [1..n -> UserIds] : n \in 0..MaxLen }

InitChunks ==
    /\ guildChannels = TopoEmpty
    /\ guildMembers = << >>
    /\ categories = EmptyBag
    /\ channels = EmptyBag
    /\ users = EmptyBag
    /\ messages = EmptyBag
    /\ sync_process_complete = FALSE
    /\ channel_sync_in_progress = FALSE
    /\ ev = [ h \in Handlers |-> NoEvent ]
    /\ pc = [ h \in Handlers |-> "idle" ]
    /\ idx = [ h \in Handlers |-> 0 ]
    /\ inFlight = [ h \in Handlers |-> {} ]
    /\ syncLog = << >>
    /\ listed \in Lists
    /\ size = 0
    /\ yielded = << >>

\* list(gen_chunks(listed, chunk_size)), for a chunk size of 1 or more.
CallsGenChunks ==
    /\ size = 0
    /\ \E chunk_size \in 1..MaxChunk :
          /\ size' = chunk_size
          /\ yielded' = gen_chunks(listed, chunk_size)
    /\ UNCHANGED << guildChannels, guildMembers, Tables, sync_process_complete,
                    channel_sync_in_progress, ev, pc, idx, inFlight, syncLog,
                    listed >>

SpecChunks == InitChunks /\ [][CallsGenChunks]_vars

RECURSIVE Concatenated(_)
Concatenated(cs) ==
    IF cs = << >> THEN << >> ELSE Head(cs) \o Concatenated(Tail(cs))

\* ceil(n / k)
CeilDiv(n, k) == (n + k - 1) \div k

\* C20: gen_chunks(listed, size) yields ceil(n / size) chunks, every one but
\* the last of size records and the last of 1 to size, and the chunks in
\* the order yielded make up the list.
C20_ChunksPartitionTheList ==
    size >= 1 =>
        /\ Len(yielded) = CeilDiv(Len(listed), size)
        /\ \A c \in 1..(Len(yielded) - 1) : Len(yielded[c]) = size
        /\ Len(yielded) >= 1 =>
              (Len(yielded[Len(yielded)]) >= 1 /\ Len(yielded[Len(yielded)]) <= size)
        /\ Concatenated(yielded) = listed

\* A list of four records in chunks of three: a full chunk and a last one
\* of one record.
C20_Witness ==
    /\ size = 3
    /\ Len(listed) = 4
    /\ Len(yielded) = 2
    /\ Len(yielded[2]) = 1

====
